---- MODULE Spec2Model ----
(***************************************************************************)
(* Model of data/update.py: the incremental-probe reconciliation run that  *)
(* advances the per-series draw counters (state.json), the latest snapshot *)
(* (latest.json) and the history log (history.json).                       *)
(***************************************************************************)
EXTENDS Integers, Sequences, FiniteSets, TLC

\* ------------------------------------------------------------------ bounds
\* Local calendar days covered by the model: day 0 .. MaxDay.
MaxDay == 7
\* Highest document index the publisher's server can ever answer for.
MaxDraw == 2
\* External counter resets in one behaviour.
MaxResets == 1
\* Advances lost by runs that died between their saves, in one behaviour.
MaxCrashes == 1
\* Runs started while another run is active, in one behaviour.
MaxOverlaps == 1

\* --------------------------------------------------- static configuration
\* The tuple the loops of main() enumerate, in order.
Keys == <<"mayor", "superior", "zodiaco">>

KeySet == {Keys[i] : i \in 1..Len(Keys)}

\* The location templates, split at the {n} placeholder.
BASE_URLS ==
  [mayor    |-> [pre |-> "https://lotenal.gob.mx/documentos/listapremios/mayor/mayor", post |-> ".pdf"],
   superior |-> [pre |-> "https://lotenal.gob.mx/documentos/listapremios/superior/superior", post |-> ".pdf"],
   zodiaco  |-> [pre |-> "https://lotenal.gob.mx/documentos/listapremios/zodiaco/zodiaco", post |-> ".pdf"]]

LABELS ==
  [mayor |-> "Sorteo Mayor", superior |-> "Sorteo Superior", zodiaco |-> "Sorteo Zodiaco"]

\* weekday(): Mon=0 ... Sun=6
SCHEDULE_WEEKDAYS ==
  [zodiaco |-> {6}, mayor |-> {1}, superior |-> {4}]

\* ------------------------------------------------------------------ state
\* clock: the current time (local day index); stateFile, latestFile,
\* historyFile: the three persisted views; run: the local variables and
\* position of each process executing main(); tables: the module-level
\* schedule and location tables as the process finds them.
\* Bookkeeping of the environment: resets counts how often the counters were
\* set back from outside, overlaps how often a run started while another
\* was active, crashed holds the (series, index) advances of runs that died
\* between saving the counters and saving the history.
VARIABLES clock, resets, crashed, overlaps, tables,
          stateFile, latestFile, historyFile, run

vars == <<clock, resets, crashed, overlaps, tables,
          stateFile, latestFile, historyFile, run>>

files == <<stateFile, latestFile, historyFile>>

aux == <<crashed, overlaps, tables>>

\* ------------------------------------------------------------ text values
\* A Python str is a sequence of one-character strings; "" is <<>>.
EmptyStr == <<>>

DigitChars == <<"0", "1", "2", "3", "4", "5", "6", "7", "8", "9">>

\* Code points of the characters that occur in ISO dates.
Ord(c) ==
  CASE c = "-" -> 45
    [] c = "0" -> 48 [] c = "1" -> 49 [] c = "2" -> 50 [] c = "3" -> 51
    [] c = "4" -> 52 [] c = "5" -> 53 [] c = "6" -> 54 [] c = "7" -> 55
    [] c = "8" -> 56 [] c = "9" -> 57

\* str(n) for n >= 0: the decimal digits, no padding.
RECURSIVE Digits(_)
Digits(n) ==
  IF n < 10 THEN <<DigitChars[n + 1]>>
  ELSE Digits(n \div 10) \o <<DigitChars[(n % 10) + 1]>>

\* int(s) for a digit string.
RECURSIVE ParseInt(_)
ParseInt(s) ==
  IF Len(s) = 0 THEN 0
  ELSE 10 * ParseInt(SubSeq(s, 1, Len(s) - 1)) + (Ord(s[Len(s)]) - 48)

\* Zero-padded decimal of width w (the %04d / %02d fields of isoformat()).
RECURSIVE Pad(_, _)
Pad(n, w) ==
  IF Len(Digits(n)) >= w THEN Digits(n)
  ELSE <<"0">> \o Pad(n, w - 1)

\* Python's str "<": lexicographic by code point, a proper prefix is smaller.
RECURSIVE StrLess(_, _)
StrLess(a, b) ==
  IF Len(b) = 0 THEN FALSE
  ELSE IF Len(a) = 0 THEN TRUE
  ELSE IF a[1] # b[1] THEN Ord(a[1]) < Ord(b[1])
  ELSE StrLess(Tail(a), Tail(b))

\* --------------------------------------------------------------- calendar
\* Local calendar day 0 of the model: Tuesday 29 September 2026.
Epoch == [year |-> 2026, month |-> 9, day |-> 29, weekday |-> 1]

IsLeap(y) == (y % 4 = 0 /\ y % 100 # 0) \/ y % 400 = 0

DaysInMonth(y, m) ==
  IF m = 2 THEN (IF IsLeap(y) THEN 29 ELSE 28)
  ELSE IF m \in {4, 6, 9, 11} THEN 30 ELSE 31

NextDate(d) ==
  IF d.day < DaysInMonth(d.year, d.month)
    THEN [d EXCEPT !.day = @ + 1, !.weekday = (@ + 1) % 7]
  ELSE IF d.month < 12
    THEN [d EXCEPT !.day = 1, !.month = @ + 1, !.weekday = (@ + 1) % 7]
  ELSE [d EXCEPT !.day = 1, !.month = 1, !.year = @ + 1, !.weekday = (@ + 1) % 7]

RECURSIVE DateOfDay(_)
DateOfDay(i) ==
  IF i = 0 THEN Epoch
  ELSE CHOOSE d \in {NextDate(prev) : prev \in {DateOfDay(i - 1)}} : TRUE

\* now_utc.astimezone(TZ): the local calendar moment of clock value t.  The
\* clock of the model has the resolution of one local day.
NowLocal(t) == DateOfDay(t)

\* date.isoformat(): YYYY-MM-DD
IsoFormat(d) == Pad(d.year, 4) \o <<"-">> \o Pad(d.month, 2) \o <<"-">> \o Pad(d.day, 2)

\* now_utc.isoformat().replace("+00:00", "Z"): one distinct non-empty text
\* per clock value.
Stamp(t) == <<"T">> \o Digits(t) \o <<"Z">>

\* ---------------------------------------------------------- persistence
\* A file on disk is <<>> when it does not exist and <<data>> when it does.
NoFile == <<>>

load_json(file, default) == IF file = NoFile THEN default ELSE file[1]

save_json(data) == <<data>>

\* The defaults main() passes to load_json.
DefaultState == [k \in KeySet |-> 0]

DefaultLatest == [updated_at |-> EmptyStr, results |-> <<>>]

DefaultHistory == [updated_at |-> EmptyStr, items |-> <<>>]

\* dict.get(key, default) on a mapping.
DictGet(d, key, default) == IF key \in DOMAIN d THEN d[key] ELSE default

\* ---------------------------------------------------------- schedule gate
ShouldAttemptAnyDay(draw_key, now_local) == draw_key \in DOMAIN SCHEDULE_WEEKDAYS

\* w = now_local.weekday(); w in SCHEDULE_WEEKDAYS.get(draw_key, [])
should_attempt_today(draw_key, now_local) ==
  now_local.weekday \in DictGet(tables.schedule, draw_key, {})

\* ------------------------------------------------------- existence prober
\* What the network can answer to one request: a transport failure (no
\* response at all) or an HTTP response with a status and a Content-Type
\* header ("<none>" when the server sends none).
NoHeader == "<none>"

TransportFailure == [err |-> "timeout", status |-> 0, ct |-> NoHeader]

HttpResponse(status, ct) == [err |-> "none", status |-> status, ct |-> ct]

StatusCodes == {200, 204, 206}

ContentTypes == {NoHeader, "Application/PDF", "text/html"}

Responses ==
  {TransportFailure, HttpResponse(404, "text/html")}
    \cup {HttpResponse(s, c) : s \in StatusCodes, c \in ContentTypes}

\* The publisher has no document beyond MaxDraw: such a location answers
\* with an error status or not at all.
ServerResponses(n) ==
  IF n <= MaxDraw THEN Responses
  ELSE {TransportFailure, HttpResponse(404, "text/html")}

\* urlopen() raises for a transport failure and (HTTPError) for every
\* status outside 2xx; only a 2xx response is returned to the caller.
Raises(resp) == resp.err # "none" \/ resp.status < 200 \/ resp.status > 299

\* str.lower() on the header values of the model.
Lower(ct) == IF ct = "Application/PDF" THEN "application/pdf" ELSE ct

\* ct = (resp.headers.get("Content-Type") or "").lower()
ContentTypeOf(resp) == IF resp.ct = NoHeader THEN "" ELSE Lower(resp.ct)

\* "pdf" in ct, for the lower-cased header values of the model.
HasPdf(ct) == ct \in {"application/pdf"}

AcceptsContentTypeStrict(ct) == HasPdf(ct)

\* ("pdf" in ct) or (ct == "")
AcceptsContentType(ct) == HasPdf(ct) \/ ct = ""

\* Step 1 of pdf_exists: "true"/"false" when the HEAD request decides,
\* "fallthrough" when its exception is swallowed and step 2 runs.
HeadOutcome(resp) ==
  IF Raises(resp) THEN "fallthrough"
  ELSE IF resp.status # 200 THEN "false"
  ELSE IF AcceptsContentType(ContentTypeOf(resp)) THEN "true" ELSE "false"

GetOutcomeFailOpen(resp) ==
  IF Raises(resp) THEN TRUE
  ELSE IF resp.status \notin {200, 206} THEN FALSE
  ELSE AcceptsContentType(ContentTypeOf(resp))

\* Step 2 of pdf_exists: the value returned after the ranged GET.
GetOutcome(resp) ==
  IF Raises(resp) THEN FALSE
  ELSE IF resp.status \notin {200, 206} THEN FALSE
  ELSE AcceptsContentType(ContentTypeOf(resp))

\* --------------------------------------------------------- series advance
NextNSkipping(current_n) == current_n + 2

\* next_n = current_n + 1
NextN(current_n) == current_n + 1

\* BASE_URLS[key].format(n=next_n)
FormatUrl(key, n) == <<BASE_URLS[key].pre>> \o Digits(n) \o <<BASE_URLS[key].post>>

\* f"Sorteo {next_n}"
FormatDraw(n) == <<"Sorteo ">> \o Digits(n)

\* The placeholder main() installs for a series without a snapshot.
Placeholder(k) ==
  [label |-> LABELS[k], draw |-> EmptyStr, published_date |-> EmptyStr, pdf_url |-> EmptyStr]

NormalizeResetting(latest) ==
  [latest EXCEPT !.results = [k \in KeySet |-> Placeholder(k)]]

\* latest["results"].setdefault(k, placeholder) for every series.
Normalize(latest) ==
  [latest EXCEPT !.results =
     [k \in KeySet |-> DictGet(latest.results, k, Placeholder(k))]]

\* The dedupe set built from the loaded history.
BuildExisting(history) ==
  {<<history.items[i].type, history.items[i].draw>> : i \in DOMAIN history.items}

SnapshotStale(key, next_n, published_date, url) ==
  [label |-> LABELS[key], draw |-> FormatDraw(next_n - 1),
   published_date |-> published_date, pdf_url |-> url]

\* The record written to latest["results"][key].
Snapshot(key, next_n, published_date, url) ==
  [label |-> LABELS[key], draw |-> FormatDraw(next_n),
   published_date |-> published_date, pdf_url |-> url]

HistoryItemUndated(key, next_n, published_date, url) ==
  [type |-> key, label |-> LABELS[key], draw |-> next_n,
   published_date |-> EmptyStr, pdf_url |-> url]

\* The record appended to history["items"].
HistoryItem(key, next_n, published_date, url) ==
  [type |-> key, label |-> LABELS[key], draw |-> next_n,
   published_date |-> published_date, pdf_url |-> url]

IsDuplicateNever(dedupe_key, existing) == FALSE

IsDuplicateAlways(dedupe_key, existing) == TRUE

\* dedupe_key in existing
IsDuplicate(dedupe_key, existing) == dedupe_key \in existing

ProbeConfirmsAlways(ret) == TRUE

ProbeConfirmsNever(ret) == FALSE

\* The branch on pdf_exists(url): TRUE when the advance is applied.
ProbeConfirms(ret) == ret

\* ------------------------------------------------------------------ sort
sort_key_date_only(x) == <<x.published_date, 0>>

\* sort_key(x) = (published_date, int(draw))
sort_key(x) == <<x.published_date, x.draw>>

\* Python's tuple "<" on (str, int) keys.
KeyLess(a, b) == StrLess(a[1], b[1]) \/ (a[1] = b[1] /\ a[2] < b[2])

\* Position at which a stable descending sort places x in the sorted
\* prefix s: after every element whose key is not smaller than x's.
RECURSIVE InsertPos(_, _, _)
InsertPos(s, x, i) ==
  IF i > Len(s) THEN i
  ELSE IF KeyLess(sort_key(s[i]), sort_key(x)) THEN i
  ELSE InsertPos(s, x, i + 1)

InsertDescOverwriting(s, x) ==
  LET i == InsertPos(s, x, 1)
  IN  SubSeq(s, 1, i - 1) \o <<x>> \o SubSeq(s, i + 1, Len(s))

InsertDesc(s, x) ==
  LET i == InsertPos(s, x, 1)
  IN  SubSeq(s, 1, i - 1) \o <<x>> \o SubSeq(s, i, Len(s))

\* list.sort(key=sort_key, reverse=True): stable, descending.
RECURSIVE SortItems(_)
SortItems(items) ==
  IF Len(items) = 0 THEN <<>>
  ELSE CHOOSE sorted \in
         {InsertDesc(rest, items[Len(items)]) :
            rest \in {SortItems(SubSeq(items, 1, Len(items) - 1))}} : TRUE

\* Processes that can execute main(); serial operation uses only the first.
Procs == {"p1", "p2"}

Serial == "p1"

\* A process that is not executing main().  reqs is the sequence of network
\* requests it has issued with their answers, probes the sequence of
\* pdf_exists() calls with their results, loaded the files as read at start,
\* died_at the position at which an aborted run stopped.
IdleRun ==
  [pc |-> "idle", now |-> 0, idx |-> 1,
   current_n |-> 0, next_n |-> 0, url |-> EmptyStr, ret |-> FALSE,
   state |-> DefaultState, latest |-> DefaultLatest, history |-> DefaultHistory,
   existing |-> {}, updated_any |-> FALSE, stamp |-> EmptyStr,
   loaded |-> [state |-> NoFile, latest |-> NoFile, history |-> NoFile],
   reqs |-> <<>>, probes |-> <<>>, died_at |-> "idle"]

\* First run bootstraps: no view exists yet.
Init ==
  /\ clock = 0
  /\ resets = 0
  /\ crashed = {}
  /\ overlaps = 0
  /\ tables = [schedule |-> SCHEDULE_WEEKDAYS, base_urls |-> BASE_URLS]
  /\ stateFile = NoFile
  /\ latestFile = NoFile
  /\ historyFile = NoFile
  /\ run = [p \in Procs |-> IdleRun]

\* Time passes (between runs: a run reads the clock once, when it starts).
Tick ==
  /\ \A p \in Procs : run[p].pc = "idle"
  /\ clock < MaxDay
  /\ clock' = clock + 1
  /\ UNCHANGED <<resets, aux, files, run>>

StartRunPersistingDefaults(p) ==
  /\ run[p].pc = "idle"
  /\ LET concurrent == \E q \in Procs \ {p} : run[q].pc # "idle"
     IN  /\ concurrent => overlaps < MaxOverlaps
         /\ overlaps' = IF concurrent THEN overlaps + 1 ELSE overlaps
  /\ LET history == load_json(historyFile, DefaultHistory)
     IN  run' = [run EXCEPT ![p] =
           [IdleRun EXCEPT
              !.pc = "gate",
              !.now = clock,
              !.state = load_json(stateFile, DefaultState),
              !.latest = Normalize(load_json(latestFile, DefaultLatest)),
              !.history = history,
              !.existing = BuildExisting(history),
              !.loaded = [state |-> stateFile, latest |-> latestFile,
                          history |-> historyFile]]]
  /\ stateFile' = save_json(load_json(stateFile, DefaultState))
  /\ latestFile' = save_json(load_json(latestFile, DefaultLatest))
  /\ historyFile' = save_json(load_json(historyFile, DefaultHistory))
  /\ UNCHANGED <<clock, resets, crashed, tables>>

\* main(), up to the series loop: read the clock, load the three views,
\* normalise the snapshot collection, build the dedupe set.
StartRun(p) ==
  /\ run[p].pc = "idle"
  /\ LET concurrent == \E q \in Procs \ {p} : run[q].pc # "idle"
     IN  /\ concurrent => overlaps < MaxOverlaps
         /\ overlaps' = IF concurrent THEN overlaps + 1 ELSE overlaps
  /\ LET history == load_json(historyFile, DefaultHistory)
     IN  run' = [run EXCEPT ![p] =
           [IdleRun EXCEPT
              !.pc = "gate",
              !.now = clock,
              !.state = load_json(stateFile, DefaultState),
              !.latest = Normalize(load_json(latestFile, DefaultLatest)),
              !.history = history,
              !.existing = BuildExisting(history),
              !.loaded = [state |-> stateFile, latest |-> latestFile,
                          history |-> historyFile]]]
  /\ UNCHANGED <<clock, resets, crashed, tables, files>>

\* "continue" / end of the loop body: the next series, or the code after
\* the loop.
Continue(r) ==
  IF r.idx < Len(Keys)
    THEN [r EXCEPT !.idx = @ + 1, !.pc = "gate"]
    ELSE [r EXCEPT !.idx = @ + 1, !.pc = "finish"]

CurrentNZero(state, key) == 0

\* current_n = int(state.get(key, 0))
CurrentN(state, key) == DictGet(state, key, 0)

\* Top of the loop body: the schedule gate, then the candidate index and
\* its location.  BASE_URLS[key] is a plain subscript: a missing template
\* raises KeyError, which nothing catches.
Gate(p) ==
  /\ run[p].pc = "gate"
  /\ LET r == run[p]
         key == Keys[r.idx]
         current_n == CurrentN(r.state, key)
         next_n == NextN(current_n)
     IN  run' = [run EXCEPT ![p] =
           IF ~should_attempt_today(key, NowLocal(r.now))
             THEN Continue(r)
           ELSE IF key \notin DOMAIN tables.base_urls
             THEN [r EXCEPT !.current_n = current_n,
                            !.next_n = next_n,
                            !.pc = "aborted",
                            !.died_at = "gate"]
             ELSE [r EXCEPT !.current_n = current_n,
                            !.next_n = next_n,
                            !.url = FormatUrl(key, next_n),
                            !.pc = "head"]]
  /\ UNCHANGED <<clock, resets, aux, files>>

\* pdf_exists, step 1: the HEAD request and what it decides.
HeadRequest(p) ==
  /\ run[p].pc = "head"
  /\ \E resp \in ServerResponses(run[p].next_n) :
       LET r == run[p]
           sent == Append(r.reqs, [key |-> Keys[r.idx], method |-> "HEAD",
                                   url |-> r.url, resp |-> resp])
           o == HeadOutcome(resp)
       IN  run' = [run EXCEPT ![p] =
             IF o = "fallthrough"
               THEN [r EXCEPT !.reqs = sent, !.pc = "get"]
               ELSE [r EXCEPT !.reqs = sent, !.ret = (o = "true"), !.pc = "decide"]]
  /\ UNCHANGED <<clock, resets, aux, files>>

\* pdf_exists, step 2: the ranged GET request and what it returns.
GetRequest(p) ==
  /\ run[p].pc = "get"
  /\ \E resp \in ServerResponses(run[p].next_n) :
       LET r == run[p]
           sent == Append(r.reqs, [key |-> Keys[r.idx], method |-> "GET",
                                   url |-> r.url, resp |-> resp])
       IN  run' = [run EXCEPT ![p] =
             [r EXCEPT !.reqs = sent, !.ret = GetOutcome(resp), !.pc = "decide"]]
  /\ UNCHANGED <<clock, resets, aux, files>>

\* The in-memory merge of a confirmed advance of series key.
Advance(r, key) ==
  LET published_date == IsoFormat(NowLocal(r.now))
      dedupe_key == <<key, r.next_n>>
      dup == IsDuplicate(dedupe_key, r.existing)
  IN  [r EXCEPT
         !.state = [k \in (DOMAIN r.state) \cup {key} |->
                      IF k = key THEN r.next_n ELSE r.state[k]],
         !.latest.results[key] = Snapshot(key, r.next_n, published_date, r.url),
         !.history.items =
            IF dup THEN @
            ELSE Append(@, HistoryItem(key, r.next_n, published_date, r.url)),
         !.existing = IF dup THEN @ ELSE @ \cup {dedupe_key},
         !.updated_any = TRUE]

\* The rest of the loop body, from the branch on pdf_exists(url).
Decide(p) ==
  /\ run[p].pc = "decide"
  /\ LET r == run[p]
         key == Keys[r.idx]
         called == [r EXCEPT !.probes =
                      Append(@, [key |-> key, n |-> r.next_n, url |-> r.url,
                                 exists |-> r.ret])]
     IN  run' = [run EXCEPT ![p] =
           IF ~ProbeConfirms(r.ret)
             THEN Continue(called)
             ELSE Continue(Advance(called, key))]
  /\ UNCHANGED <<clock, resets, aux, files>>

ShouldSaveAlways(updated_any) == TRUE

\* if updated_any:
ShouldSave(updated_any) == updated_any

StampHistorySkipped(history, stamp) == history

\* history["updated_at"] = stamp
StampHistory(history, stamp) == [history EXCEPT !.updated_at = stamp]

\* After the loop: stamp both views and sort the history, when something
\* advanced; otherwise the run is over.
Finish(p) ==
  /\ run[p].pc = "finish"
  /\ LET r == run[p]
         stamp == Stamp(r.now)
         stamped == StampHistory(r.history, stamp)
     IN  run' = [run EXCEPT ![p] =
           IF ShouldSave(r.updated_any)
             THEN [r EXCEPT !.stamp = stamp,
                            !.latest.updated_at = stamp,
                            !.history = [stamped EXCEPT !.items = SortItems(@)],
                            !.pc = "save_state"]
             ELSE [r EXCEPT !.pc = "done"]]
  /\ UNCHANGED <<clock, resets, aux, files>>

\* save_json(STATE_FILE, state)
SaveState(p) ==
  /\ run[p].pc = "save_state"
  /\ stateFile' = save_json(run[p].state)
  /\ run' = [run EXCEPT ![p].pc = "save_latest"]
  /\ UNCHANGED <<clock, resets, aux, latestFile, historyFile>>

\* save_json(LATEST_FILE, latest)
SaveLatest(p) ==
  /\ run[p].pc = "save_latest"
  /\ latestFile' = save_json(run[p].latest)
  /\ run' = [run EXCEPT ![p].pc = "save_history"]
  /\ UNCHANGED <<clock, resets, aux, stateFile, historyFile>>

\* save_json(HISTORY_FILE, history)
SaveHistory(p) ==
  /\ run[p].pc = "save_history"
  /\ historyFile' = save_json(run[p].history)
  /\ run' = [run EXCEPT ![p].pc = "done"]
  /\ UNCHANGED <<clock, resets, aux, stateFile, latestFile>>

\* The process ends; the next invocation starts from fresh locals.
Exit(p) ==
  /\ run[p].pc = "done"
  /\ run' = [run EXCEPT ![p] = IdleRun]
  /\ UNCHANGED <<clock, resets, aux, files>>

RunStep(p) ==
  \/ StartRun(p)
  \/ Gate(p)
  \/ HeadRequest(p)
  \/ GetRequest(p)
  \/ Decide(p)
  \/ Finish(p)
  \/ SaveState(p)
  \/ SaveLatest(p)
  \/ SaveHistory(p)
  \/ Exit(p)

\* Serial operation: one invocation of main() at a time, to completion.
Next ==
  \/ Tick
  \/ RunStep(Serial)

Spec == Init /\ [][Next]_vars

\* External interference with the counters (an upstream bug or a manual
\* edit between runs): the counter of one series is set back by one.
ExternalReset(s) ==
  /\ \A p \in Procs : run[p].pc = "idle"
  /\ stateFile # NoFile
  /\ resets < MaxResets
  /\ DictGet(stateFile[1], s, 0) > 0
  /\ stateFile' = <<[stateFile[1] EXCEPT ![s] = @ - 1]>>
  /\ resets' = resets + 1
  /\ UNCHANGED <<clock, aux, latestFile, historyFile, run>>

NextReset ==
  \/ Next
  \/ \E s \in KeySet : ExternalReset(s)

\* Serial runs with counters that may be set back between runs.
SpecReset == Init /\ [][NextReset]_vars

\* The advances (series, index) a run holds in memory over what it loaded.
AdvancesOf(r) ==
  {<<k, r.state[k]>> : k \in {j \in KeySet :
      r.state[j] # DictGet(load_json(r.loaded.state, DefaultState), j, 0)}}

\* The process dies inside main(): an uncaught exception (save_json
\* failing) or a kill.  Whatever it has saved so far stays on disk.
Abort(p) ==
  /\ run[p].pc \in {"gate", "head", "get", "decide", "finish",
                    "save_state", "save_latest", "save_history"}
  /\ run[p].pc \in {"save_latest", "save_history"} => Cardinality(crashed) < MaxCrashes
  /\ run' = [run EXCEPT ![p].pc = "aborted", ![p].died_at = run[p].pc]
  /\ crashed' = IF run[p].pc \in {"save_latest", "save_history"}
                  THEN crashed \cup AdvancesOf(run[p])
                  ELSE crashed
  /\ UNCHANGED <<clock, resets, overlaps, tables, files>>

\* load_json raises (unreadable or malformed file): main() stops in its
\* first lines.
LoadFail(p) ==
  /\ run[p].pc = "idle"
  /\ \A q \in Procs \ {p} : run[q].pc = "idle"
  /\ run' = [run EXCEPT ![p] =
       [IdleRun EXCEPT !.pc = "aborted", !.died_at = "load", !.now = clock,
                       !.loaded = [state |-> stateFile, latest |-> latestFile,
                                   history |-> historyFile]]]
  /\ UNCHANGED <<clock, resets, aux, files>>

\* The aborted process is gone; the next invocation starts afresh.
ExitAborted(p) ==
  /\ run[p].pc = "aborted"
  /\ run' = [run EXCEPT ![p] = IdleRun]
  /\ UNCHANGED <<clock, resets, aux, files>>

NextCrash ==
  \/ Next
  \/ Abort(Serial)
  \/ LoadFail(Serial)
  \/ ExitAborted(Serial)

\* Serial runs that may die at any point.
SpecCrash == Init /\ [][NextCrash]_vars

\* The answer to the request process p has just sent is one of S.
AnsweredFrom(p, S) == run'[p].reqs[Len(run'[p].reqs)].resp \in S

\* A server that either serves the document as a pdf or answers 404.
PlainResponses == {HttpResponse(200, "Application/PDF"), HttpResponse(404, "text/html")}

\* Invocations of main() that are not serialised: the second process may
\* start while the first is between its load and the end of its saves (and
\* the first again while the second still runs).  The server is a plain one.
OverlapStep(p) ==
  \/ StartRun(p) /\ (p # Serial => run[Serial].pc # "idle")
  \/ Gate(p)
  \/ HeadRequest(p) /\ AnsweredFrom(p, PlainResponses)
  \/ GetRequest(p) /\ AnsweredFrom(p, PlainResponses)
  \/ Decide(p)
  \/ Finish(p)
  \/ SaveState(p)
  \/ SaveLatest(p)
  \/ SaveHistory(p)
  \/ Exit(p)

NextOverlap ==
  \/ Tick
  \/ \E p \in Procs : OverlapStep(p)

SpecOverlap == Init /\ [][NextOverlap]_vars

\* A dict with the entry of k removed.
Without(d, k) == [j \in DOMAIN d \ {k} |-> d[j]]

\* The two tables as deployed, or with the entry of one series missing from
\* the schedule or from the location templates.
GapTables ==
  {[schedule |-> SCHEDULE_WEEKDAYS, base_urls |-> BASE_URLS]}
    \cup {[schedule |-> Without(SCHEDULE_WEEKDAYS, k), base_urls |-> BASE_URLS] : k \in KeySet}
    \cup {[schedule |-> SCHEDULE_WEEKDAYS, base_urls |-> Without(BASE_URLS, k)] : k \in KeySet}

InitGap ==
  /\ clock = 0
  /\ resets = 0
  /\ crashed = {}
  /\ overlaps = 0
  /\ tables \in GapTables
  /\ stateFile = NoFile
  /\ latestFile = NoFile
  /\ historyFile = NoFile
  /\ run = [p \in Procs |-> IdleRun]

NextGap ==
  \/ Next
  \/ ExitAborted(Serial)

\* Serial runs of a build whose tables may have a gap.
SpecGap == InitGap /\ [][NextGap]_vars

\* Answers of a publisher that has the document, for which pdf_exists
\* returns True: the HEAD request is served (or fails and the ranged GET is
\* served).
ExistsHead ==
  {HttpResponse(200, "Application/PDF"), HttpResponse(200, NoHeader), TransportFailure}

ExistsGet == {HttpResponse(206, "Application/PDF"), HttpResponse(200, NoHeader)}

\* The calendar repeats: after day MaxDay comes the same weekday of the
\* week before, so that every weekday recurs for ever within the horizon.
TickWeekly ==
  /\ \A p \in Procs : run[p].pc = "idle"
  /\ clock' = IF clock >= MaxDay THEN MaxDay - 6 ELSE clock + 1
  /\ UNCHANGED <<resets, aux, files, run>>

\* A run is invoked on a day on which series s is scheduled.
StartRunOnDayOf(p, s) ==
  /\ NowLocal(clock).weekday \in SCHEDULE_WEEKDAYS[s]
  /\ StartRun(p)

\* The steps of a started run when documents 1..MaxDraw exist and keep
\* existing and the probe answers Exists for them.
CatchUpStep(p) ==
  \/ Gate(p)
  \/ HeadRequest(p) /\ (run[p].next_n <= MaxDraw => AnsweredFrom(p, ExistsHead))
  \/ GetRequest(p) /\ (run[p].next_n <= MaxDraw => AnsweredFrom(p, ExistsGet))
  \/ Decide(p)
  \/ Finish(p)
  \/ SaveState(p)
  \/ SaveLatest(p)
  \/ SaveHistory(p)
  \/ Exit(p)

NextCatchUp ==
  \/ TickWeekly
  \/ StartRun(Serial)
  \/ CatchUpStep(Serial)

\* Time passes, a started run runs to its end (every network call has a
\* timeout), and runs keep being invoked on the scheduled days of every
\* series.
SpecCatchUp ==
  /\ Init
  /\ [][NextCatchUp]_vars
  /\ SF_vars(TickWeekly)
  /\ WF_vars(CatchUpStep(Serial))
  /\ \A s \in KeySet : SF_vars(StartRunOnDayOf(Serial, s))

\* ================================================================ claims
\* Vocabulary of the properties below.
R == run[Serial]

RunActive == R.pc # "idle"

RunOver == R.pc = "done"

\* The views as main() reads them, defaults applied.
CounterIn(file, s) == DictGet(load_json(file, DefaultState), s, 0)

ItemsIn(file) == load_json(file, DefaultHistory).items

UpdatedAtIn(file, default) == load_json(file, default).updated_at

SnapshotIn(file, s) ==
  DictGet(load_json(file, DefaultLatest).results, s, Placeholder(s))

PreCounter(s) == CounterIn(R.loaded.state, s)

\* The eligible weekday of the run's local day, read off the table.
EligibleToday(s) ==
  s \in DOMAIN SCHEDULE_WEEKDAYS
    /\ NowLocal(R.now).weekday \in SCHEDULE_WEEKDAYS[s]

\* pdf_exists() answered True for series s in this run.
ReportedExists(s) ==
  \E i \in DOMAIN R.probes : R.probes[i].key = s /\ R.probes[i].exists

\* The entries of a history that belong to series s, in order.
ItemsOf(items, s) == SelectSeq(items, LAMBDA it : it.type = s)

CountOf(items, s, n) ==
  Cardinality({i \in DOMAIN items : items[i].type = s /\ items[i].draw = n})

\* C1: Monotonicity.  While and after a run, the persisted counter of every
\* series is its pre-run value or that value plus one, and every request and
\* every probe of the run is for the location of index pre-run counter + 1.
Thm_C1_Monotonic ==
  RunActive =>
    /\ \A s \in KeySet :
         /\ CounterIn(stateFile, s) >= PreCounter(s)
         /\ CounterIn(stateFile, s) <= PreCounter(s) + 1
    /\ \A i \in DOMAIN R.reqs :
         R.reqs[i].url = FormatUrl(R.reqs[i].key, PreCounter(R.reqs[i].key) + 1)
    /\ \A i \in DOMAIN R.probes :
         /\ R.probes[i].n = PreCounter(R.probes[i].key) + 1
         /\ R.probes[i].url = FormatUrl(R.probes[i].key, PreCounter(R.probes[i].key) + 1)

\* A run has advanced a series by one although the document after the next
\* was already available.
Wit_C1_AdvancedByOne ==
  /\ RunOver
  /\ \E s \in KeySet :
       /\ CounterIn(stateFile, s) = PreCounter(s) + 1
       /\ PreCounter(s) + 2 <= MaxDraw
       /\ \E i \in DOMAIN R.reqs : R.reqs[i].key = s

\* C2: No advance without confirmation.  At the end of a run the counter of
\* s is pre-run + 1 exactly when a probe of location(pre-run + 1) reported
\* Exists in this run, and is the pre-run value otherwise.
Thm_C2_AdvanceIffConfirmed ==
  RunOver =>
    \A s \in KeySet :
      LET confirmed ==
            \E i \in DOMAIN R.probes :
              /\ R.probes[i].key = s
              /\ R.probes[i].url = FormatUrl(s, PreCounter(s) + 1)
              /\ R.probes[i].exists
      IN  /\ confirmed => CounterIn(stateFile, s) = PreCounter(s) + 1
          /\ ~confirmed => CounterIn(stateFile, s) = PreCounter(s)
          /\ ~confirmed => R.state[s] = PreCounter(s)

\* A run ended in which a probe reported Exists for a series that had
\* advanced before, and its counter went up by one.
Wit_C2_ConfirmedAdvance ==
  /\ RunOver
  /\ \E s \in KeySet :
       /\ ReportedExists(s)
       /\ CounterIn(stateFile, s) = PreCounter(s) + 1
       /\ PreCounter(s) > 0

\* C3: Idempotent no-op.  A run in which no probe reported Exists never
\* reaches a save, and at its end the three files are exactly what they were
\* when the run loaded them (absent files stay absent).
Thm_C3_NoOpWritesNothing ==
  (RunActive /\ \A s \in KeySet : ~ReportedExists(s)) =>
    /\ R.pc \notin {"save_state", "save_latest", "save_history"}
    /\ stateFile = R.loaded.state
    /\ latestFile = R.loaded.latest
    /\ historyFile = R.loaded.history

\* A no-op run after an earlier writing run: a probe was issued and
\* reported NotFound, the views exist and carry a timestamp.
Wit_C3_NoOpRun ==
  /\ RunOver
  /\ \E i \in DOMAIN R.probes : ~R.probes[i].exists
  /\ \A s \in KeySet : ~ReportedExists(s)
  /\ latestFile # NoFile
  /\ UpdatedAtIn(latestFile, DefaultLatest) # EmptyStr
  /\ UpdatedAtIn(latestFile, DefaultLatest) # Stamp(R.now)

\* C4: History dedupe.  The persisted history never holds two entries with
\* the same (type, draw), also when counters are set back between runs; a
\* run that re-confirms n for a series whose history already holds (s, n)
\* ends with counter n and exactly one (s, n) entry.
Thm_C4_HistoryDedupe ==
  /\ \A i, j \in DOMAIN ItemsIn(historyFile) :
       (ItemsIn(historyFile)[i].type = ItemsIn(historyFile)[j].type
          /\ ItemsIn(historyFile)[i].draw = ItemsIn(historyFile)[j].draw) => i = j
  /\ RunOver =>
       \A s \in KeySet :
         (ReportedExists(s) /\ CountOf(ItemsIn(R.loaded.history), s, PreCounter(s) + 1) = 1) =>
           /\ CounterIn(stateFile, s) = PreCounter(s) + 1
           /\ CountOf(ItemsIn(historyFile), s, PreCounter(s) + 1) = 1
           /\ Len(ItemsIn(historyFile)) = Len(ItemsIn(R.loaded.history))

\* The counter had been set back to n-1 while the history held (s, n), and
\* a run has confirmed n again.
Wit_C4_Reconfirmed ==
  /\ RunOver
  /\ \E s \in KeySet :
       /\ ReportedExists(s)
       /\ CountOf(ItemsIn(R.loaded.history), s, PreCounter(s) + 1) = 1
       /\ CounterIn(stateFile, s) = PreCounter(s) + 1

\* (publishedDate, draw) of a is smaller than that of b.
PairLess(a, b) ==
  \/ StrLess(a.published_date, b.published_date)
  \/ (a.published_date = b.published_date /\ a.draw < b.draw)

\* C5: History ordering.  The whole persisted history is in descending
\* order of (publishedDate, draw): no entry is followed by a larger one.
Thm_C5_HistorySorted ==
  \A i, j \in DOMAIN ItemsIn(historyFile) :
    i < j => ~PairLess(ItemsIn(historyFile)[i], ItemsIn(historyFile)[j])

\* A written history with two entries of one date and a third of another.
Wit_C5_SharedDate ==
  /\ RunOver
  /\ R.updated_any
  /\ \E i, j, k \in DOMAIN ItemsIn(historyFile) :
       /\ i < j
       /\ ItemsIn(historyFile)[i].published_date = ItemsIn(historyFile)[j].published_date
       /\ ItemsIn(historyFile)[i].draw > ItemsIn(historyFile)[j].draw
       /\ ItemsIn(historyFile)[k].published_date # ItemsIn(historyFile)[i].published_date

\* C6: Snapshot/counter agreement.  Between runs, every series with a
\* positive counter has a persisted snapshot whose draw text is "Sorteo "
\* followed by the decimal digits of that counter; during a run the
\* in-memory counter and snapshot agree in the same way (they are assigned
\* together).
Thm_C6_SnapshotMatchesCounter ==
  /\ R.pc \in {"idle", "done"} =>
       \A s \in KeySet :
         CounterIn(stateFile, s) > 0 =>
           /\ latestFile # NoFile
           /\ s \in DOMAIN latestFile[1].results
           /\ latestFile[1].results[s].draw = <<"Sorteo ">> \o Digits(CounterIn(stateFile, s))
           /\ ParseInt(Tail(latestFile[1].results[s].draw)) = CounterIn(stateFile, s)
  /\ RunActive =>
       \A s \in KeySet :
         R.state[s] > 0 => R.latest.results[s].draw = <<"Sorteo ">> \o Digits(R.state[s])

\* After a run one series stands at its second draw, another at its first
\* and the third has never advanced.
Wit_C6_MixedCounters ==
  /\ RunOver
  /\ R.updated_any
  /\ \E s, t, u \in KeySet :
       /\ CounterIn(stateFile, s) = 2
       /\ SnapshotIn(latestFile, s).draw = <<"Sorteo ", "2">>
       /\ CounterIn(stateFile, t) = 1
       /\ CounterIn(stateFile, u) = 0

\* C7: RunTimestamp.  A run in which a series advanced leaves the stamp of
\* its own start instant in both updated_at fields; a run in which none
\* advanced leaves both fields as loaded; between runs the two fields are
\* equal.
Thm_C7_RunTimestamp ==
  /\ RunOver =>
       IF \E s \in KeySet : ReportedExists(s)
         THEN /\ latestFile # NoFile /\ historyFile # NoFile
              /\ latestFile[1].updated_at = Stamp(R.now)
              /\ historyFile[1].updated_at = Stamp(R.now)
              /\ Stamp(R.now) # EmptyStr
         ELSE /\ latestFile = R.loaded.latest
              /\ historyFile = R.loaded.history
  /\ R.pc \in {"idle", "done"} =>
       UpdatedAtIn(latestFile, DefaultLatest) = UpdatedAtIn(historyFile, DefaultHistory)

\* A writing run has replaced an older, different timestamp in both views.
Wit_C7_Restamped ==
  /\ RunOver
  /\ \E s \in KeySet : ReportedExists(s)
  /\ UpdatedAtIn(R.loaded.latest, DefaultLatest) # EmptyStr
  /\ UpdatedAtIn(R.loaded.latest, DefaultLatest) # Stamp(R.now)
  /\ UpdatedAtIn(historyFile, DefaultHistory) = Stamp(R.now)

\* C8: Schedule gate ordering.  Every request and every probe of a run is
\* for a series whose weekday set contains the run's local weekday, and the
\* run is inside a probe only for such a series; a series the gate rejects
\* ends the run with no request, its counter, its snapshot (as read, with
\* the default placeholder) and its history entries unchanged; an
\* identifier missing from the schedule table is eligible on no day.
Thm_C8_GateBeforeProbe ==
  /\ \A i \in DOMAIN R.reqs : EligibleToday(R.reqs[i].key)
  /\ \A i \in DOMAIN R.probes : EligibleToday(R.probes[i].key)
  /\ R.pc \in {"head", "get", "decide"} => EligibleToday(Keys[R.idx])
  /\ RunOver =>
       \A s \in KeySet :
         ~EligibleToday(s) =>
           /\ \A i \in DOMAIN R.reqs : R.reqs[i].key # s
           /\ CounterIn(stateFile, s) = PreCounter(s)
           /\ SnapshotIn(latestFile, s) = SnapshotIn(R.loaded.latest, s)
           /\ ItemsOf(ItemsIn(historyFile), s) = ItemsOf(ItemsIn(R.loaded.history), s)
  /\ \A d \in 0..MaxDay : ~should_attempt_today("gordo", DateOfDay(d))

\* A writing run is over in which a series with earlier advances was not
\* eligible and kept them.
Wit_C8_SkippedSeries ==
  /\ RunOver
  /\ R.updated_any
  /\ \E s \in KeySet :
       /\ ~EligibleToday(s)
       /\ PreCounter(s) > 0
       /\ CounterIn(stateFile, s) = PreCounter(s)
       /\ \A i \in DOMAIN R.reqs : R.reqs[i].key # s

\* C9: Effect of a confirmed advance.  When an eligible series with counter
\* n was confirmed at location(n+1) and (s, n+1) was not in the history,
\* the run ends with counter n+1, the snapshot {label, "Sorteo n+1", today's
\* local ISO date, location(n+1)}, a history one entry longer that keeps
\* every earlier entry and holds (s, n+1) once with the snapshot's date and
\* location, and both updated_at fields set.
Thm_C9_ConfirmedAdvance ==
  RunOver =>
    \A s \in KeySet :
      LET n == PreCounter(s)
          old == ItemsIn(R.loaded.history)
          new == ItemsIn(historyFile)
          snap == SnapshotIn(latestFile, s)
      IN  (/\ EligibleToday(s)
           /\ \E i \in DOMAIN R.probes :
                /\ R.probes[i].key = s
                /\ R.probes[i].url = FormatUrl(s, n + 1)
                /\ R.probes[i].exists
           /\ CountOf(old, s, n + 1) = 0)
          =>
          /\ CounterIn(stateFile, s) = n + 1
          /\ snap = [label |-> LABELS[s],
                     draw |-> <<"Sorteo ">> \o Digits(n + 1),
                     published_date |-> IsoFormat(NowLocal(R.now)),
                     pdf_url |-> FormatUrl(s, n + 1)]
          /\ Len(new) = Len(old) + 1
          /\ \A i \in DOMAIN old : \E j \in DOMAIN new : new[j] = old[i]
          /\ \E j \in DOMAIN new :
               new[j] = [type |-> s, label |-> LABELS[s], draw |-> n + 1,
                         published_date |-> snap.published_date,
                         pdf_url |-> snap.pdf_url]
          /\ CountOf(new, s, n + 1) = 1
          /\ UpdatedAtIn(latestFile, DefaultLatest) # EmptyStr
          /\ UpdatedAtIn(historyFile, DefaultHistory) # EmptyStr

\* A confirmed advance on top of a history that already had entries, dated
\* on the first local day of October.
Wit_C9_AdvanceRecorded ==
  /\ RunOver
  /\ Len(ItemsIn(R.loaded.history)) >= 2
  /\ \E s \in KeySet :
       /\ ReportedExists(s)
       /\ CountOf(ItemsIn(R.loaded.history), s, PreCounter(s) + 1) = 0
       /\ CounterIn(stateFile, s) = PreCounter(s) + 1
       /\ SnapshotIn(latestFile, s).published_date =
            <<"2", "0", "2", "6", "-", "1", "0", "-", "0", "2">>

\* The request failed at the transport level: no response, or an HTTP error
\* status.
FailedRequest(req) == req.resp.err # "none" \/ req.resp.status >= 400

\* C10: Transport failure is fail-safe.  A probe all of whose requests
\* failed reports NotFound; the loop has then moved past that series with
\* its counter untouched, and the run ends with every series visited and
\* that series' persisted counter at its pre-run value.
Thm_C10_TransportFailSafe ==
  \A i \in DOMAIN R.probes :
    LET key == R.probes[i].key
    IN  (\A j \in DOMAIN R.reqs : R.reqs[j].key = key => FailedRequest(R.reqs[j])) =>
          /\ ~R.probes[i].exists
          /\ R.state[key] = PreCounter(key)
          /\ CounterIn(stateFile, key) = PreCounter(key)
          /\ \E k \in 1..Len(Keys) : Keys[k] = key /\ R.idx > k
          /\ RunOver => R.idx = Len(Keys) + 1

\* Both requests for the first series of the enumeration failed (no answer
\* to HEAD, error status to GET) and the run went on to its end.
Wit_C10_FailedProbeRunEnds ==
  /\ RunOver
  /\ R.idx = Len(Keys) + 1
  /\ \E i \in DOMAIN R.probes : R.probes[i].key = Keys[1] /\ ~R.probes[i].exists
  /\ Len(R.reqs) = 2
  /\ R.reqs[1].resp.err = "timeout"
  /\ R.reqs[2].resp.status = 404
  /\ PreCounter(Keys[1]) > 0

\* The requests of the run for series key with the given method.
ReqsOf(key, method) ==
  SelectSeq(R.reqs, LAMBDA q : q.key = key /\ q.method = method)

\* The response carries the canonical success status.
Status200(resp) == resp.err = "none" /\ resp.status = 200

\* The declared content type is absent or names a pdf document.
DeclaresPdfOrNothing(resp) == resp.ct \in {NoHeader, "Application/PDF"}

\* C11 (as claimed): Probe fallback on non-success.  Every probe whose HEAD
\* request did not yield status 200, by an exception or by a response with
\* another status, has issued the ranged GET request.
Cex_C11_NonSuccessFallsThrough ==
  \A i \in DOMAIN R.probes :
    LET heads == ReqsOf(R.probes[i].key, "HEAD")
    IN  (Len(heads) = 1 /\ ~Status200(heads[1].resp)) =>
          Len(ReqsOf(R.probes[i].key, "GET")) = 1

\* C12: Probe decision.  A probe sends one HEAD request; when it is
\* answered 200 the probe reports Exists exactly for an absent or pdf
\* content type and sends no GET; when a GET was sent, the HEAD had not been
\* answered 200 and the probe reports Exists exactly when the GET is
\* answered 200 or 206 with an absent or pdf content type.
Thm_C12_ProbeDecision ==
  \A i \in DOMAIN R.probes :
    LET heads == ReqsOf(R.probes[i].key, "HEAD")
        gets == ReqsOf(R.probes[i].key, "GET")
    IN  /\ Len(heads) = 1
        /\ Len(gets) <= 1
        /\ Status200(heads[1].resp) =>
             /\ Len(gets) = 0
             /\ R.probes[i].exists = DeclaresPdfOrNothing(heads[1].resp)
        /\ Len(gets) = 1 =>
             /\ ~Status200(heads[1].resp)
             /\ R.probes[i].exists =
                  (/\ gets[1].resp.err = "none"
                   /\ gets[1].resp.status \in {200, 206}
                   /\ DeclaresPdfOrNothing(gets[1].resp))

\* A probe decided by the GET fallback: HEAD got an error status, GET was
\* answered 206 without a content type, and the probe reported Exists.
Wit_C12_DecidedByGet ==
  /\ RunOver
  /\ \E i \in DOMAIN R.probes :
       /\ R.probes[i].exists
       /\ Len(ReqsOf(R.probes[i].key, "GET")) = 1
       /\ ReqsOf(R.probes[i].key, "HEAD")[1].resp.status = 404
       /\ ReqsOf(R.probes[i].key, "GET")[1].resp.status = 206
       /\ ReqsOf(R.probes[i].key, "GET")[1].resp.ct = NoHeader

\* C13: Crash between saves is never repaired.  The saves happen in the
\* order counters, snapshots, history; the history never holds an index
\* above the counter of its series; and an advance (s, n) of a run that
\* died after saving the counters and before saving the history stays on
\* disk as a counter of at least n with no history entry (s, n), in every
\* later state.
Thm_C13_CrashNeverRepaired ==
  /\ R.pc = "save_state" =>
       /\ stateFile = R.loaded.state
       /\ latestFile = R.loaded.latest
       /\ historyFile = R.loaded.history
  /\ R.pc = "save_latest" =>
       /\ stateFile = <<R.state>>
       /\ latestFile = R.loaded.latest
       /\ historyFile = R.loaded.history
  /\ R.pc = "save_history" =>
       /\ stateFile = <<R.state>>
       /\ latestFile = <<R.latest>>
       /\ historyFile = R.loaded.history
  /\ \A i \in DOMAIN ItemsIn(historyFile) :
       ItemsIn(historyFile)[i].draw <= CounterIn(stateFile, ItemsIn(historyFile)[i].type)
  /\ \A c \in crashed :
       /\ CounterIn(stateFile, c[1]) >= c[2]
       /\ CountOf(ItemsIn(historyFile), c[1], c[2]) = 0

\* A run died between the saves after advancing a series to n; a later run
\* has advanced the same series to n+1 and saved, and the history holds
\* (s, n+1) but still not (s, n).
Wit_C13_LaterRunNoRepair ==
  /\ RunOver
  /\ R.updated_any
  /\ \E c \in crashed :
       /\ CounterIn(stateFile, c[1]) = c[2] + 1
       /\ CountOf(ItemsIn(historyFile), c[1], c[2] + 1) = 1
       /\ CountOf(ItemsIn(historyFile), c[1], c[2]) = 0

\* No process is executing main().
Quiescent == \A p \in Procs : run[p].pc = "idle"

\* The three persisted views agree: the history holds the indexes
\* 1..counter of every series once each and nothing else, and the snapshot
\* of every series with a positive counter shows that counter.
ViewsAgree ==
  \A s \in KeySet :
    /\ \A n \in 1..CounterIn(stateFile, s) : CountOf(ItemsIn(historyFile), s, n) = 1
    /\ \A i \in DOMAIN ItemsIn(historyFile) :
         ItemsIn(historyFile)[i].type = s =>
           ItemsIn(historyFile)[i].draw \in 1..CounterIn(stateFile, s)
    /\ CounterIn(stateFile, s) > 0 =>
         SnapshotIn(latestFile, s).draw = <<"Sorteo ">> \o Digits(CounterIn(stateFile, s))

\* C14: Overlapping runs can corrupt state.  As long as no run has started
\* while another was active, the views agree whenever no run is active; a
\* state where they disagree is reached only after an overlapping start.
Thm_C14_SerialRunsAgree ==
  (Quiescent /\ overlaps = 0) => ViewsAgree

\* After one overlapping start both runs have ended and an update is lost:
\* the counter of a series stands at 2 while the history entry of its first
\* draw, saved by one run, was overwritten by the other.
Wit_C14_LostUpdate ==
  /\ Quiescent
  /\ overlaps = 1
  /\ \E s \in KeySet :
       /\ CounterIn(stateFile, s) = 2
       /\ CountOf(ItemsIn(historyFile), s, 2) = 1
       /\ CountOf(ItemsIn(historyFile), s, 1) = 0

\* The three files are what the run found when it started.
FilesAsLoaded ==
  /\ stateFile = R.loaded.state
  /\ latestFile = R.loaded.latest
  /\ historyFile = R.loaded.history

\* Positions of main() before its first save_json call has returned.
BeforeSaves == {"load", "gate", "head", "get", "decide", "finish", "save_state"}

\* C15: Load failure writes nothing.  From its load until its first save a
\* run has modified none of the three files, and a run that aborted in its
\* load or anywhere before the first save has left all three files as it
\* found them.
Thm_C15_AbortBeforeSaveWritesNothing ==
  /\ R.pc \in BeforeSaves => FilesAsLoaded
  /\ (R.pc = "aborted" /\ R.died_at \in BeforeSaves) => FilesAsLoaded

\* A run failed while loading views that earlier runs had written.
Wit_C15_LoadFailed ==
  /\ R.pc = "aborted"
  /\ R.died_at = "load"
  /\ stateFile # NoFile
  /\ Len(ItemsIn(historyFile)) >= 1

\* The series lacks a schedule entry or a location template.
HasGap(s) == s \notin DOMAIN tables.schedule \/ s \notin DOMAIN tables.base_urls

\* The run raised while processing series s.
RaisedAt(s) == R.pc = "aborted" /\ Keys[R.idx] = s

\* C16 (as claimed): Configuration gap is fail-closed.  A series that lacks
\* a schedule entry or a location template is never probed, and no run
\* raises while processing it.
Cex_C16_GapFailsClosed ==
  \A s \in KeySet :
    HasGap(s) => (Len(ReqsOf(s, "HEAD")) = 0 /\ ~RaisedAt(s))

\* How many entries of items are the record it, field for field.
CountRec(items, it) == Cardinality({i \in DOMAIN items : items[i] = it})

\* The series whose persisted counter this run has changed.
AdvancedSeries == {s \in KeySet : CounterIn(stateFile, s) # PreCounter(s)}

\* C17: History is append-only across runs.  While and after a run, every
\* entry of the history the run loaded is in the persisted history with
\* identical field values and as many times as before, and the persisted
\* history has grown by at most one entry per advanced series.
Thm_C17_HistoryAppendOnly ==
  RunActive =>
    LET before == ItemsIn(R.loaded.history)
        after == ItemsIn(historyFile)
    IN  /\ \A i \in DOMAIN before :
             CountRec(after, before[i]) = CountRec(before, before[i])
        /\ Len(after) >= Len(before)
        /\ Len(after) - Len(before) <= Cardinality(AdvancedSeries)

\* A writing run added one entry in front of two older ones, which moved.
Wit_C17_AppendedInFront ==
  /\ RunOver
  /\ Len(ItemsIn(R.loaded.history)) = 2
  /\ Len(ItemsIn(historyFile)) = 3
  /\ CountRec(ItemsIn(R.loaded.history), ItemsIn(historyFile)[1]) = 0
  /\ ItemsIn(historyFile)[2] = ItemsIn(R.loaded.history)[1]

\* The draw indexes the persisted history records for series s.
DrawsOf(s) ==
  {ItemsIn(historyFile)[i].draw :
     i \in {j \in DOMAIN ItemsIn(historyFile) : ItemsIn(historyFile)[j].type = s}}

\* No run is between its first and its last save.
Persisted == R.pc \notin {"save_latest", "save_history"}

\* C18: History completeness.  From the bootstrap state and under serial
\* runs that never crash, whenever no run is in the middle of its saves the
\* draw indexes the history records for a series are exactly 1..counter of
\* that series, each recorded once.
Thm_C18_HistoryComplete ==
  Persisted =>
    \A s \in KeySet :
      /\ DrawsOf(s) = 1..CounterIn(stateFile, s)
      /\ \A n \in DrawsOf(s) : CountOf(ItemsIn(historyFile), s, n) = 1

\* Between runs, one series has two recorded draws and another has one.
Wit_C18_SeveralDraws ==
  /\ R.pc = "idle"
  /\ \E s, t \in KeySet :
       /\ s # t
       /\ CounterIn(stateFile, s) = 2
       /\ DrawsOf(s) = {1, 2}
       /\ CounterIn(stateFile, t) = 1
       /\ DrawsOf(t) = {1}

\* The snapshot records of a latest file as stored, defaults applied to the
\* file only.
ResultsIn(file) == load_json(file, DefaultLatest).results

\* C20: Frame of a writing run.  After a run in which some series advanced,
\* every series that did not advance has its persisted counter unchanged
\* and its persisted snapshot unchanged, except that a series that had no
\* snapshot record has the placeholder with its label and empty draw,
\* publishedDate and documentURL.
Thm_C20_WritingRunFrame ==
  (RunOver /\ \E s \in KeySet : ReportedExists(s)) =>
    \A t \in KeySet :
      ~ReportedExists(t) =>
        /\ CounterIn(stateFile, t) = PreCounter(t)
        /\ t \in DOMAIN ResultsIn(latestFile)
        /\ ResultsIn(latestFile)[t] =
             IF t \in DOMAIN ResultsIn(R.loaded.latest)
               THEN ResultsIn(R.loaded.latest)[t]
               ELSE [label |-> LABELS[t], draw |-> EmptyStr,
                     published_date |-> EmptyStr, pdf_url |-> EmptyStr]

\* A writing run advanced one series and left in place the snapshot that an
\* earlier advance of another series had written.
Wit_C20_OtherSnapshotKept ==
  /\ RunOver
  /\ \E s, t \in KeySet :
       /\ ReportedExists(s)
       /\ ~ReportedExists(t)
       /\ t \in DOMAIN ResultsIn(R.loaded.latest)
       /\ ResultsIn(R.loaded.latest)[t].draw # EmptyStr
       /\ ResultsIn(latestFile)[t] = ResultsIn(R.loaded.latest)[t]
       /\ ResultsIn(latestFile)[s] # ResultsIn(R.loaded.latest)[s]

\* C19: Eventual catch-up.  With documents 1..MaxDraw existing, a probe
\* that answers Exists for them, saves that succeed and runs that keep being
\* invoked on the scheduled days of every series: from every value below
\* MaxDraw the persisted counter of every series reaches MaxDraw and stays
\* there, it moves only by single steps of one (so k - c advancing runs take
\* it from c to k), and it never exceeds MaxDraw.
Thm_C19_EventualCatchUp ==
  /\ \A s \in KeySet : <>[](CounterIn(stateFile, s) = MaxDraw)
  /\ [](\A s \in KeySet : CounterIn(stateFile, s) <= MaxDraw)
  /\ [][\A s \in KeySet :
          CounterIn(stateFile, s)' \in
            {CounterIn(stateFile, s), CounterIn(stateFile, s) + 1}]_vars

\* Every series has caught up, and a run that probed the next index of a
\* caught-up series got NotFound and ended.
Wit_C19_CaughtUp ==
  /\ RunOver
  /\ \A s \in KeySet : CounterIn(stateFile, s) = MaxDraw
  /\ \E i \in DOMAIN R.probes :
       R.probes[i].n = MaxDraw + 1 /\ ~R.probes[i].exists

====
